---- MODULE Spec2Model ----
(***************************************************************************)
(* Model of src/src/components/FlightSimulator.tsx: the FlightSimulator    *)
(* component's state (isPlaying, cameraMode, flightData, aircraftState,    *)
(* keysPressed, the physics interval) and its handlers (keydown, keyup,    *)
(* the 16 ms physics tick, play/pause, landing gear, camera cycle).        *)
(*                                                                         *)
(* Numbers.  JavaScript doubles are modelled in fixed point with           *)
(* resolution 1/Scale:                                                     *)
(*   angles (rotation.x/y/z)      : 1/Scale rad                            *)
(*   position, velocity           : 1/Scale world units (per tick)         *)
(*   fuel                         : 1/Scale percent                        *)
(*   gForce                       : tenths (it is stored to one decimal)   *)
(*   throttle, flaps, speed, altitude, heading, engineTemp, verticalSpeed  *)
(*                                : the integers the code stores           *)
(* Products are divided back by Scale with rounding to nearest (RDiv).     *)
(*                                                                         *)
(* Scheduling.  The tick callback reads flightData through the closure of  *)
(* the effect that armed the interval; the effect's dependency list names  *)
(* every field the callback reads (throttle, flaps, fuel, engineTemp), so  *)
(* the model lets each tick read the flightData committed by the previous  *)
(* one (render and effect run between two firings of the 16 ms timer).     *)
(***************************************************************************)
EXTENDS Integers, Sequences, FiniteSets, TLC

VARIABLES
    isPlaying,      \* useState(false), line 151
    cameraMode,     \* useState('chase'), line 152
    flightData,     \* useState({...}), lines 154-169
    aircraftState,  \* useState({position, rotation, velocity}), lines 171-175
    keysPressed,    \* useRef(new Set()), line 178
    interval,       \* TRUE while a setInterval timer is armed, lines 203/304
    ticks,          \* history: number of timer callbacks run so far
    prevY,          \* history: prevY of the last tick, line 260
    integratedY,    \* history: position.y of the last tick before the ground clamp, line 261
    cycles,         \* history: number of camera cycle actions so far
    lastEvent       \* history: the latest keyboard event observed for each key

vars == <<isPlaying, cameraMode, flightData, aircraftState, keysPressed,
          interval, ticks, prevY, integratedY, cycles, lastEvent>>

(***************************************************************************)
(* Fixed-point arithmetic                                                  *)
(***************************************************************************)
Scale == 10 * 1000

Abs(a) == IF a < 0 THEN -a ELSE a
Min(a, b) == IF a < b THEN a ELSE b
Max(a, b) == IF a > b THEN a ELSE b

\* a / b rounded to nearest, ties away from zero (b > 0)
RDiv(a, b) == IF a >= 0 THEN (2 * a + b) \div (2 * b)
                        ELSE -((2 * (-a) + b) \div (2 * b))

\* Math.round(a / b): nearest integer, ties towards +infinity (b > 0)
MathRound(a, b) == (2 * a + b) \div (2 * b)

\* JavaScript a % b: the remainder takes the sign of the dividend (b > 0)
JsRem(a, b) == IF a >= 0 THEN a % b ELSE -((-a) % b)

\* floor(sqrt(n)) by bisection, 0 <= n < 2^31
RECURSIVE SqrtBetween(_, _, _)
SqrtBetween(n, lo, hi) ==
    IF lo >= hi THEN lo
    ELSE LET mid == (lo + hi + 1) \div 2
         IN  IF mid * mid <= n THEN SqrtBetween(n, mid, hi)
                               ELSE SqrtBetween(n, lo, mid - 1)

ISqrt(n) == SqrtBetween(n, 0, 46340)

\* Math.PI, Math.PI / 2, 2 * Math.PI in 1/Scale rad
PI == 31416
HalfPI == PI \div 2
TwoPI == 2 * PI

\* Math.sin on 1/Scale rad, result in 1/Scale: reduce to [-PI/2, PI/2], then
\* the Taylor polynomial up to x^9
Sin(a) ==
    LET r  == ((a + PI) % TwoPI) - PI
        x  == IF r > HalfPI THEN PI - r
              ELSE IF r < -HalfPI THEN -PI - r ELSE r
        x2 == RDiv(x * x, Scale)
        t3 == RDiv(RDiv(x2 * x, Scale), 6)
        t5 == RDiv(t3 * x2, 20 * Scale)
        t7 == RDiv(t5 * x2, 42 * Scale)
        t9 == RDiv(t7 * x2, 72 * Scale)
    IN  x - t3 + t5 - t7 + t9

Cos(a) == Sin(a + HalfPI)

\* THREE.Vector3
Vec(x, y, z) == [x |-> x, y |-> y, z |-> z]
VecAdd(u, v) == Vec(u.x + v.x, u.y + v.y, u.z + v.z)

\* Vector3.length(): components are scaled down before squaring so that the
\* squares stay below 2^31
Length(v) ==
    LET m == Max(Abs(v.x), Max(Abs(v.y), Abs(v.z)))
        k == (m \div 26000) + 1
        sq(c) == (Abs(c) \div k) * (Abs(c) \div k)
    IN  k * ISqrt(sq(v.x) + sq(v.y) + sq(v.z))

\* Vector3.multiplyScalar(num / den)
VecScale(v, num, den) == Vec(RDiv(v.x * num, den), RDiv(v.y * num, den), RDiv(v.z * num, den))

(***************************************************************************)
(* The tick's steps, lines 204-300                                         *)
(***************************************************************************)
\* lines 219-221
pitchSpeed == 200
rollSpeed == 300
yawSpeed == 100

\* Math.PI / 4 and Math.PI / 6, lines 224-234
QuarterPI == RDiv(PI, 4)
SixthPI == RDiv(PI, 6)

\* NewThrottle without the Math.min(100, ...) and Math.max(0, ...) clamps
NewThrottleUnclamped(throttle, keys) ==
    LET up == IF "shift" \in keys THEN throttle + 2 ELSE throttle
    IN  IF "control" \in keys THEN up - 2 ELSE up

\* Throttle control, lines 209-211
NewThrottle(throttle, keys) ==
    LET up == IF "shift" \in keys THEN Min(100, throttle + 2) ELSE throttle
    IN  IF "control" \in keys THEN Max(0, up - 2) ELSE up

\* Flaps control, lines 214-216
NewFlaps(flaps, keys) ==
    LET ext == IF "f" \in keys THEN Min(40, flaps + 10) ELSE flaps
    IN  IF "g" \in keys THEN Max(0, ext - 10) ELSE ext

\* NewPitch without the Math.max(-PI/4, ...) and Math.min(PI/4, ...) clamps
NewPitchUnclamped(x, keys) ==
    LET up == IF "w" \in keys \/ "arrowup" \in keys THEN x - pitchSpeed ELSE x
    IN  IF "s" \in keys \/ "arrowdown" \in keys THEN up + pitchSpeed ELSE up

\* Pitch, lines 223-228
NewPitch(x, keys) ==
    LET up == IF "w" \in keys \/ "arrowup" \in keys
              THEN Max(-QuarterPI, x - pitchSpeed) ELSE x
    IN  IF "s" \in keys \/ "arrowdown" \in keys
        THEN Min(QuarterPI, up + pitchSpeed) ELSE up

\* Roll, lines 229-230 and 233-234
NewRoll(z, keys) ==
    LET left == IF "a" \in keys \/ "arrowleft" \in keys
                THEN Min(SixthPI, z + rollSpeed) ELSE z
    IN  IF "d" \in keys \/ "arrowright" \in keys
        THEN Max(-SixthPI, left - rollSpeed) ELSE left

\* NewYaw with the two key tests chained by else, roll-right first
NewYawElseIf(y, keys) ==
    IF "d" \in keys \/ "arrowright" \in keys THEN y + yawSpeed
    ELSE IF "a" \in keys \/ "arrowleft" \in keys THEN y - yawSpeed
    ELSE y

\* Yaw, lines 231 and 235: not clamped
NewYaw(y, keys) ==
    LET left == IF "a" \in keys \/ "arrowleft" \in keys THEN y - yawSpeed ELSE y
    IN  IF "d" \in keys \/ "arrowright" \in keys THEN left + yawSpeed ELSE left

\* lines 223-236
NewRotation(rot, keys) ==
    Vec(NewPitch(rot.x, keys), NewYaw(rot.y, keys), NewRoll(rot.z, keys))

\* line 239: (newThrottle / 100) * 0.5
Thrust(throttle) == RDiv(throttle * 5 * Scale, 1000)

\* Forward with the thrust along the negative z axis, Vector3(0, 0, -thrust)
ForwardReversed(thrust, rot) ==
    Vec(-RDiv(thrust * Sin(rot.y), Scale),
        RDiv(RDiv(thrust * Sin(rot.x), Scale) * Cos(rot.y), Scale),
        -RDiv(RDiv(thrust * Cos(rot.x), Scale) * Cos(rot.y), Scale))

\* lines 243-244: Vector3(0, 0, thrust).applyEuler(rotation), Euler order XYZ:
\* the third column of the rotation matrix, (sin y, -sin x cos y, cos x cos y)
Forward(thrust, rot) ==
    Vec(RDiv(thrust * Sin(rot.y), Scale),
        -RDiv(RDiv(thrust * Sin(rot.x), Scale) * Cos(rot.y), Scale),
        RDiv(RDiv(thrust * Cos(rot.x), Scale) * Cos(rot.y), Scale))

\* lines 240 and 247-248: speed * sin(-rotation.x) * (1 + flaps / 100) * 0.1
Lift(velocity, rot, flaps) ==
    RDiv(RDiv(Length(velocity) * Sin(-rot.x), Scale) * (100 + flaps), 1000)

\* line 255
gravity == 100

\* lines 241 and 258: velocity * (0.98 / (1 + flaps / 200))
Drag(velocity, flaps) == VecScale(velocity, 196, 200 + flaps)

\* lines 251-258: the velocity after thrust, lift, gravity and drag
NewVelocity(velocity, rot, throttle, flaps) ==
    LET lift    == Lift(velocity, rot, flaps)
        pushed  == VecAdd(VecAdd(velocity, Forward(Thrust(throttle), rot)), Vec(0, lift, 0))
        falling == Vec(pushed.x, pushed.y - gravity, pushed.z)
    IN  Drag(falling, flaps)

\* GroundVelocity that keeps the vertical velocity on touching the ground
GroundVelocityKept(pos, vel) == vel

\* GroundPosition without the ground collision
GroundPositionUnclamped(pos) == pos

\* lines 264-267: the ground collision, on the integrated position
GroundVelocity(pos, vel) == IF pos.y < 0 THEN Vec(vel.x, 0, vel.z) ELSE vel
GroundPosition(pos) == IF pos.y < 0 THEN Vec(pos.x, 0, pos.z) ELSE pos

\* lines 270 and 295: Math.round((position.y - prevY) * 600)
VerticalSpeed(y, before) == MathRound((y - before) * 6, 100)

\* lines 270-271 and 296: Math.round(gForce * 10) / 10, in tenths
GForce(y, before) == MathRound(Abs(y - before) * 6 + Scale, 1000)

\* lines 274 and 288: Math.round(velocity.length() * 100)
Speed(velocity) == MathRound(Length(velocity), 100)

\* lines 275 and 289: Math.round(Math.max(0, position.y * 10))
Altitude(y) == MathRound(Max(0, y), 1000)

\* line 276: ((rotation.y * 180 / Math.PI) + 360) % 360, in millionths of a
\* degree (100/Scale rad is 572958 millionths of a degree)
HeadingMicro(yaw) ==
    JsRem((yaw \div 100) * 572958 + RDiv((yaw % 100) * 572958, 100) + 360 * 1000000,
          360 * 1000000)

\* line 290: Math.round(heading)
Heading(yaw) == MathRound(HeadingMicro(yaw), 1000000)

\* lines 279-280: Math.max(0, fuel - (newThrottle / 100) * 0.02), in 1/Scale
NewFuel(fuel, throttle) == Max(0, fuel - RDiv(throttle * 2 * Scale, 10000))

\* StoredFuel without the division by 10 that follows Math.round
StoredFuelNotDivided(newFuel) == MathRound(newFuel, 1000) * Scale

\* line 293: Math.round(newFuel * 10) / 10, in 1/Scale
StoredFuel(newFuel) == MathRound(newFuel, 1000) * 1000

\* lines 283-284: engineTemp + (75 + (newThrottle / 100) * 50 - engineTemp) * 0.1, in 1/Scale
NewEngineTemp(engineTemp, throttle) ==
    LET targetTemp == 75 * Scale + RDiv(throttle * 50 * Scale, 100)
    IN  engineTemp * Scale + RDiv(targetTemp - engineTemp * Scale, 10)

\* line 294: Math.round(newEngineTemp)
StoredEngineTemp(newEngineTemp) == MathRound(newEngineTemp, Scale)

\* EngineStatus that never reports IDLE
EngineStatusNoIdle(newFuel, newThrottle) ==
    IF newFuel > 0 THEN "RUNNING" ELSE "FUEL OUT"

\* EngineStatus that tests the throttle before the fuel
EngineStatusThrottleFirst(newFuel, newThrottle) ==
    IF newThrottle > 0 THEN "RUNNING"
    ELSE IF newFuel <= 0 THEN "FUEL OUT" ELSE "IDLE"

\* line 297
EngineStatus(newFuel, newThrottle) ==
    IF newFuel > 0 /\ newThrottle > 0 THEN "RUNNING"
    ELSE IF newFuel <= 0 THEN "FUEL OUT" ELSE "IDLE"

(***************************************************************************)
(* State after construction, lines 151-178                                 *)
(***************************************************************************)
InitFlightData ==
    [speed |-> 0, altitude |-> 100, heading |-> 0, throttle |-> 0,
     landingGear |-> TRUE, engineStatus |-> "IDLE", weather |-> "CLEAR",
     windSpeed |-> 5, temperature |-> 15, fuel |-> 100 * Scale,
     engineTemp |-> 75, flaps |-> 0, verticalSpeed |-> 0, gForce |-> 10]

InitAircraftState ==
    [position |-> Vec(0, 0, 0), rotation |-> Vec(0, 0, 0), velocity |-> Vec(0, 0, 0)]

Init ==
    /\ isPlaying = FALSE
    /\ cameraMode = "chase"
    /\ flightData = InitFlightData
    /\ aircraftState = InitAircraftState
    /\ keysPressed = {}
    /\ interval = FALSE
    /\ ticks = 0
    /\ prevY = 0
    /\ integratedY = 0
    /\ cycles = 0
    /\ lastEvent = <<>>

(***************************************************************************)
(* Handlers                                                                *)
(***************************************************************************)
\* String.prototype.toLowerCase on the event.key values the keyboard sends,
\* lines 183 and 187
ToLowerCase(key) ==
    CASE key = "Shift" -> "shift"
      [] key = "Control" -> "control"
      [] key = "ArrowUp" -> "arrowup"
      [] key = "ArrowDown" -> "arrowdown"
      [] key = "ArrowLeft" -> "arrowleft"
      [] key = "ArrowRight" -> "arrowright"
      [] key = "W" -> "w"
      [] key = "S" -> "s"
      [] key = "A" -> "a"
      [] key = "D" -> "d"
      [] key = "F" -> "f"
      [] key = "G" -> "g"
      [] OTHER -> key

\* The latest event observed for the key that sent `key`
Observed(key, event) ==
    [k \in DOMAIN lastEvent \cup {ToLowerCase(key)} |->
        IF k = ToLowerCase(key) THEN event ELSE lastEvent[k]]

\* handleKeyDown, lines 182-184
KeyDown(k) ==
    /\ keysPressed' = keysPressed \cup {ToLowerCase(k)}
    /\ lastEvent' = Observed(k, "keydown")
    /\ UNCHANGED <<isPlaying, cameraMode, flightData, aircraftState, interval,
                   ticks, prevY, integratedY, cycles>>

\* handleKeyUp that deletes event.key as sent, without toLowerCase
KeyUpAsSent(k) ==
    /\ keysPressed' = keysPressed \ {k}
    /\ lastEvent' = Observed(k, "keyup")
    /\ UNCHANGED <<isPlaying, cameraMode, flightData, aircraftState, interval,
                   ticks, prevY, integratedY, cycles>>

\* handleKeyUp, lines 186-188
KeyUp(k) ==
    /\ keysPressed' = keysPressed \ {ToLowerCase(k)}
    /\ lastEvent' = Observed(k, "keyup")
    /\ UNCHANGED <<isPlaying, cameraMode, flightData, aircraftState, interval,
                   ticks, prevY, integratedY, cycles>>

\* TogglePlay whose effect has no cleanup: a timer once armed stays armed
TogglePlayNoCleanup ==
    /\ isPlaying' = ~isPlaying
    /\ interval' = (interval \/ isPlaying')
    /\ UNCHANGED <<cameraMode, flightData, aircraftState, keysPressed,
                   ticks, prevY, integratedY, cycles, lastEvent>>

\* The play/pause button, line 437, and the physics effect's guard, cleanup
\* and setInterval, lines 200-203 and 304
TogglePlay ==
    /\ isPlaying' = ~isPlaying
    /\ interval' = isPlaying'
    /\ UNCHANGED <<cameraMode, flightData, aircraftState, keysPressed,
                   ticks, prevY, integratedY, cycles, lastEvent>>

\* The timer may fire, lines 201-203
TimerArmed == interval

\* The interval callback, lines 203-302
Tick ==
    /\ TimerArmed
    /\ LET keys        == keysPressed
           newThrottle == NewThrottle(flightData.throttle, keys)
           newFlaps    == NewFlaps(flightData.flaps, keys)
           rot         == NewRotation(aircraftState.rotation, keys)
           vel         == NewVelocity(aircraftState.velocity, rot, newThrottle, newFlaps)
           before      == aircraftState.position.y
           moved       == VecAdd(aircraftState.position, vel)
           pos         == GroundPosition(moved)
           landed      == GroundVelocity(moved, vel)
           newFuel     == NewFuel(flightData.fuel, newThrottle)
           newTemp     == NewEngineTemp(flightData.engineTemp, newThrottle)
       IN  /\ aircraftState' = [position |-> pos, rotation |-> rot, velocity |-> landed]
           /\ flightData' = [flightData EXCEPT
                  !.speed = Speed(landed),
                  !.altitude = Altitude(pos.y),
                  !.heading = Heading(rot.y),
                  !.throttle = newThrottle,
                  !.flaps = newFlaps,
                  !.fuel = StoredFuel(newFuel),
                  !.engineTemp = StoredEngineTemp(newTemp),
                  !.verticalSpeed = VerticalSpeed(pos.y, before),
                  !.gForce = GForce(pos.y, before),
                  !.engineStatus = EngineStatus(newFuel, newThrottle)]
           /\ prevY' = before
           /\ integratedY' = moved.y
    /\ ticks' = ticks + 1
    /\ UNCHANGED <<isPlaying, cameraMode, keysPressed, interval, cycles, lastEvent>>

\* toggleLandingGear that spreads the flightData of the first render instead of
\* the previous state
ToggleLandingGearStale ==
    /\ flightData' = [InitFlightData EXCEPT !.landingGear = ~flightData.landingGear]
    /\ UNCHANGED <<isPlaying, cameraMode, aircraftState, keysPressed, interval,
                   ticks, prevY, integratedY, cycles, lastEvent>>

\* toggleLandingGear, lines 307-309
ToggleLandingGear ==
    /\ flightData' = [flightData EXCEPT !.landingGear = ~flightData.landingGear]
    /\ UNCHANGED <<isPlaying, cameraMode, aircraftState, keysPressed, interval,
                   ticks, prevY, integratedY, cycles, lastEvent>>

\* cycleCameraMode, lines 311-315
modes == <<"chase", "cockpit", "free">>
IndexOf(mode) == CHOOSE i \in 1..Len(modes) : modes[i] = mode
\* NextCameraMode without the wrap-around of % modes.length
NextCameraModeNoWrap(mode) == modes[Min(IndexOf(mode) + 1, Len(modes))]

NextCameraMode(mode) == modes[(IndexOf(mode) % Len(modes)) + 1]

CycleCameraMode ==
    /\ cameraMode' = NextCameraMode(cameraMode)
    /\ cycles' = cycles + 1
    /\ UNCHANGED <<isPlaying, flightData, aircraftState, keysPressed, interval,
                   ticks, prevY, integratedY, lastEvent>>

(***************************************************************************)
(* Specifications.  Every specification starts in Init and takes the       *)
(* handlers above as its steps; they differ in the keys the keyboard       *)
(* sends, in when it sends them, and in how many ticks are explored.       *)
(***************************************************************************)
\* The keys the tick reads, lines 210-233
Keys == {"shift", "control", "f", "g", "w", "s", "a", "d",
         "arrowup", "arrowdown", "arrowleft", "arrowright"}

\* Spec: every handler, any key, any order
MaxTicks == 1
MaxHeld == 1
MaxCycles == 3

PressKey == \E k \in Keys : Cardinality(DOMAIN lastEvent \cup {k}) <= MaxHeld /\ KeyDown(k)
ReleaseKey == \E k \in keysPressed : KeyUp(k)
TimerFires == ticks < MaxTicks /\ Tick
CameraButton == cycles < MaxCycles /\ CycleCameraMode

Next ==
    \/ PressKey
    \/ ReleaseKey
    \/ TogglePlay
    \/ TimerFires
    \/ ToggleLandingGear
    \/ CameraButton

Spec == Init /\ [][Next]_vars

\* Long holds: the keyboard changes the held keys before the first tick, holds
\* them for `hold` ticks, and changes them again during the EventTail ticks
\* that follow
EventTail == 2

KeyWindow(hold) == ticks = 0 \/ (ticks >= hold /\ ticks < hold + EventTail)
Press(keys, hold) == KeyWindow(hold) /\ \E k \in keys : KeyDown(k)
Release(keys, hold) == KeyWindow(hold) /\ \E k \in keysPressed : KeyUp(k)
Fire(limit) == ticks < limit /\ Tick

\* SpecAttitude: the pitch and roll keys, held until both clamps are reached
AttitudeKeys == {"w", "s", "a", "d"}
AttitudeHold == 40
AttitudePress == Press(AttitudeKeys, AttitudeHold)
AttitudeRelease == Release(AttitudeKeys, AttitudeHold)
AttitudeTick == Fire(AttitudeHold + EventTail)
NextAttitude == AttitudePress \/ AttitudeRelease \/ TogglePlay \/ AttitudeTick
SpecAttitude == Init /\ [][NextAttitude]_vars

\* SpecThrottle: the throttle and flaps keys, held until throttle reaches 100
ThrottleKeys == {"shift", "control", "f", "g"}
ThrottleHold == 50
ThrottlePress == Press(ThrottleKeys, ThrottleHold)
ThrottleRelease == Release(ThrottleKeys, ThrottleHold)
ThrottleTick == Fire(ThrottleHold + EventTail)
NextThrottle == ThrottlePress \/ ThrottleRelease \/ TogglePlay \/ ThrottleTick
SpecThrottle == Init /\ [][NextThrottle]_vars

\* SpecYaw: the roll keys, held for a full turn of yaw
YawKeys == {"a", "d"}
YawHold == 628
YawPress == Press(YawKeys, YawHold)
YawRelease == Release(YawKeys, YawHold)
YawTick == Fire(YawHold + EventTail)
NextYaw == YawPress \/ YawRelease \/ TogglePlay \/ YawTick
SpecYaw == Init /\ [][NextYaw]_vars

\* SpecFlight: throttle up and pitch up until airborne, then pitch down until
\* the aircraft is back on the ground
FlightKeys == {"shift", "w", "s"}
FlightHold == 7
FlightTicks == 22
FlightPress == Press(FlightKeys, FlightHold)
FlightRelease == Release(FlightKeys, FlightHold)
FlightTick == Fire(FlightTicks)
NextFlight == FlightPress \/ FlightRelease \/ TogglePlay \/ FlightTick
SpecFlight == Init /\ [][NextFlight]_vars

\* SpecTick: the tick applied to any stored fuel and throttle, as when the
\* fuel has been run down or replenished from outside
FuelInputs == {0, Scale \div 10, 100 * Scale}
ThrottleInputs == {0, 2, 100}
TickKeys == {"shift", "control"}
TickDepth == 3

InitTick ==
    /\ isPlaying = FALSE
    /\ cameraMode = "chase"
    /\ \E fuel \in FuelInputs, throttle \in ThrottleInputs :
           flightData = [InitFlightData EXCEPT !.fuel = fuel, !.throttle = throttle]
    /\ aircraftState = InitAircraftState
    /\ keysPressed = {}
    /\ interval = FALSE
    /\ ticks = 0
    /\ prevY = 0
    /\ integratedY = 0
    /\ cycles = 0
    /\ lastEvent = <<>>

TickPress == \E k \in TickKeys : KeyDown(k)
TickRelease == \E k \in keysPressed : KeyUp(k)
TickFires == Fire(TickDepth)
NextTick == TickPress \/ TickRelease \/ TogglePlay \/ TickFires
SpecTick == InitTick /\ [][NextTick]_vars

\* SpecKeys: keydown and keyup events, with the event.key values the keyboard
\* sends, freely interleaved with the timer
EventKeys == {"Shift", "w", "W", "ArrowUp", "a", "A"}
KeyTicks == 2
KeyEventDown == \E k \in EventKeys : KeyDown(k)
KeyEventUp == \E k \in EventKeys : KeyUp(k)
KeysTimer == Fire(KeyTicks)
NextKeys == KeyEventDown \/ KeyEventUp \/ TogglePlay \/ KeysTimer
SpecKeys == Init /\ [][NextKeys]_vars

\* SpecPrior: one tick from any prior flightData, values outside the documented
\* ranges included (no reachable state has them; the tick is applied to them
\* as the callback would be)
PriorThrottle == {-4, 0, 50, 100, 150}
PriorFlaps == {-10, 0, 40, 50}
PriorFuel == {-Scale, 0, 100 * Scale, 150 * Scale}
PriorKeys == {"shift", "control", "f"}
PriorTicks == 1
InitPrior ==
    /\ isPlaying = FALSE
    /\ cameraMode = "chase"
    /\ \E throttle \in PriorThrottle, flaps \in PriorFlaps, fuel \in PriorFuel :
           flightData = [InitFlightData EXCEPT !.throttle = throttle,
                                               !.flaps = flaps,
                                               !.fuel = fuel]
    /\ aircraftState = InitAircraftState
    /\ keysPressed = {}
    /\ interval = FALSE
    /\ ticks = 0
    /\ prevY = 0
    /\ integratedY = 0
    /\ cycles = 0
    /\ lastEvent = <<>>
PriorPress == ticks = 0 /\ \E k \in PriorKeys : KeyDown(k)
PriorRelease == ticks = 0 /\ \E k \in keysPressed : KeyUp(k)
PriorTick == Fire(PriorTicks)
NextPrior == PriorPress \/ PriorRelease \/ TogglePlay \/ PriorTick
SpecPrior == InitPrior /\ [][NextPrior]_vars

\* SpecTakeoff: from rest, the throttle-up key alone is held and never released
TakeoffTicks == 60
TakeoffPress == ticks = 0 /\ KeyDown("Shift")
TakeoffTick == keysPressed = {"shift"} /\ Fire(TakeoffTicks)
NextTakeoff == TakeoffPress \/ TogglePlay \/ TakeoffTick
SpecTakeoff == Init /\ [][NextTakeoff]_vars

\* SpecDrop: the aircraft released at position.y = 5 with zero velocity and
\* orientation, throttle 0 and no key held (the starting state the drop is
\* described from); the timer fires every 16 ms while the simulation plays
DropHeight == 5 * Scale
DropTicks == 60
InitDrop ==
    /\ isPlaying = FALSE
    /\ cameraMode = "chase"
    /\ flightData = InitFlightData
    /\ aircraftState = [InitAircraftState EXCEPT !.position = Vec(0, DropHeight, 0)]
    /\ keysPressed = {}
    /\ interval = FALSE
    /\ ticks = 0
    /\ prevY = 0
    /\ integratedY = 0
    /\ cycles = 0
    /\ lastEvent = <<>>
DropTick == Fire(DropTicks)
NextDrop == TogglePlay \/ DropTick
\* setInterval(..., 16), line 203: an armed interval fires again. Only the tick
\* advances the tick count, so fairness of this step is fairness of DropTick.
TimerDue == TimerArmed /\ ticks < DropTicks /\ ticks' = ticks + 1
SpecDrop == InitDrop /\ [][NextDrop]_vars /\ WF_ticks(TimerDue)

(***************************************************************************)
(* Claims                                                                  *)
(***************************************************************************)

\* C1: in every reachable state pitch (rotation.x) is within [-PI/4, PI/4] and
\* roll (rotation.z) within [-PI/6, PI/6], however long the keys are held.
AttitudeWithinClamps ==
    /\ aircraftState.rotation.x >= -QuarterPI
    /\ aircraftState.rotation.x <= QuarterPI
    /\ aircraftState.rotation.z >= -SixthPI
    /\ aircraftState.rotation.z <= SixthPI

\* C1 witness: pitch-up and roll-left are still held after both clamps were hit
AttitudeHeldAtClamps ==
    /\ ticks > AttitudeHold
    /\ {"w", "a"} \subseteq keysPressed
    /\ aircraftState.rotation.x = -QuarterPI
    /\ aircraftState.rotation.z = SixthPI

\* C2: after every tick position.y >= 0 and altitude >= 0, and when the
\* integrated position.y was below 0 the tick ends with velocity.y = 0.
GroundFloor ==
    /\ aircraftState.position.y >= 0
    /\ flightData.altitude >= 0
    /\ (integratedY < 0 => aircraftState.velocity.y = 0)

\* C2 witness: a tick that started airborne and integrated below the ground
TouchedDown ==
    /\ prevY > 0
    /\ integratedY < 0
    /\ aircraftState.position.y = 0

\* C3: fuel stays within [0, 100], and a tick with throttle > 0 never raises it.
FuelInRange == flightData.fuel >= 0 /\ flightData.fuel <= 100 * Scale
FuelBoundedAndNonIncreasing ==
    /\ []FuelInRange
    /\ [][(ticks' # ticks /\ (flightData.throttle > 0 \/ flightData'.throttle > 0))
            => flightData'.fuel <= flightData.fuel]_vars

\* C3 witness: ticks have run at full throttle
TicksAtFullThrottle ==
    /\ ticks > ThrottleHold
    /\ flightData.throttle = 100
    /\ flightData.engineStatus = "RUNNING"

\* C4: throttle is within [0, 100] and flaps within [0, 40] in every reachable
\* state, opposing keys held together included.
ThrottleAndFlapsInRange ==
    /\ flightData.throttle >= 0
    /\ flightData.throttle <= 100
    /\ flightData.flaps >= 0
    /\ flightData.flaps <= 40

\* C4 witness: throttle-up and flaps-extend are still held at both upper limits
HeldAtUpperLimits ==
    /\ ticks > ThrottleHold
    /\ {"shift", "f"} \subseteq keysPressed
    /\ flightData.throttle = 100
    /\ flightData.flaps = 40

\* C5: the heading every tick stores lies in [0, 360).
HeadingInRange == flightData.heading >= 0 /\ flightData.heading < 360

\* C6: a tick with both throttle keys held leaves throttle unchanged.
BothThrottleKeysCancel ==
    [][(ticks' # ticks /\ {"shift", "control"} \subseteq keysPressed)
         => flightData'.throttle = flightData.throttle]_vars

\* C7: the engine status agrees with the fuel and throttle of the same
\* snapshot: FUEL OUT if fuel <= 0, else RUNNING if throttle > 0, else IDLE.
StatusMatchesSnapshot ==
    flightData.engineStatus =
        IF flightData.fuel <= 0 THEN "FUEL OUT"
        ELSE IF flightData.throttle > 0 THEN "RUNNING" ELSE "IDLE"

\* C7 witness: the throttle was held to 100 and is being lowered again
RunningWhileThrottleLowered ==
    /\ ticks > ThrottleHold
    /\ "control" \in keysPressed
    /\ flightData.throttle = 98
    /\ flightData.engineStatus = "RUNNING"

\* C8: once a tick has produced FUEL OUT, every later step leaves it FUEL OUT.
FuelOutIsAbsorbing ==
    [][flightData.engineStatus = "FUEL OUT" => flightData'.engineStatus = "FUEL OUT"]_vars

\* C8 witness: FUEL OUT persisted over a later tick that raised the throttle from 0
FuelOutWithThrottle ==
    /\ ticks >= 2
    /\ flightData.engineStatus = "FUEL OUT"
    /\ flightData.throttle = 2
    /\ "shift" \in keysPressed

\* C9: the camera mode is the one reached from chase by the cycle actions made
\* so far (chase, cockpit, free, chase, ...); no other step changes it.
CameraFollowsCycles == cameraMode = modes[(cycles % 3) + 1]

\* C9 witness: three cycle actions, with a tick, a held key, a pause and a
\* gear toggle in between, are back at chase
ThreeCyclesBackToChase ==
    /\ cycles = 3
    /\ cameraMode = "chase"
    /\ ticks > 0
    /\ keysPressed # {}
    /\ ~isPlaying
    /\ ~flightData.landingGear

\* C10: while paused no step changes the aircraft or the instruments, the
\* play/pause step itself runs no tick, and a step runs at most one tick.
PausedMeansFrozen ==
    [][/\ (~isPlaying => UNCHANGED <<aircraftState, flightData, ticks>>)
       /\ (isPlaying' # isPlaying => UNCHANGED <<aircraftState, flightData, ticks>>)
       /\ (ticks' = ticks \/ ticks' = ticks + 1)]_vars

\* C10 witness: paused in mid-air with keys held
PausedInFlight ==
    /\ ~isPlaying
    /\ keysPressed # {}
    /\ aircraftState.position.y > 0
    /\ aircraftState.velocity.y # 0

\* C11: a tick sees exactly the keys whose latest observed event is a keydown;
\* a control none of whose keys is held is not applied by the tick, and the
\* roll step and the yaw step of one tick see the same roll keys.
Held(k) == k \in DOMAIN lastEvent /\ lastEvent[k] = "keydown"
NoneHeld(keys) == \A k \in keys : ~Held(k)
KeysSeenAtTickBoundaries ==
    [][ticks' # ticks =>
        LET rot == aircraftState.rotation
            rot2 == aircraftState'.rotation
        IN  /\ keysPressed = {k \in DOMAIN lastEvent : lastEvent[k] = "keydown"}
            /\ (NoneHeld({"shift"}) => flightData'.throttle <= flightData.throttle)
            /\ (NoneHeld({"control"}) => flightData'.throttle >= flightData.throttle)
            /\ (NoneHeld({"f"}) => flightData'.flaps <= flightData.flaps)
            /\ (NoneHeld({"g"}) => flightData'.flaps >= flightData.flaps)
            /\ (NoneHeld({"w", "arrowup"}) => rot2.x >= rot.x)
            /\ (NoneHeld({"s", "arrowdown"}) => rot2.x <= rot.x)
            /\ (NoneHeld({"a", "arrowleft"}) => rot2.z <= rot.z /\ rot2.y >= rot.y)
            /\ (NoneHeld({"d", "arrowright"}) => rot2.z >= rot.z /\ rot2.y <= rot.y)
            /\ (~NoneHeld({"a", "arrowleft"}) /\ NoneHeld({"d", "arrowright"}) =>
                    /\ rot2.z = Min(SixthPI, rot.z + rollSpeed)
                    /\ rot2.y = rot.y - yawSpeed)
            /\ (~NoneHeld({"shift"}) /\ NoneHeld({"control"}) =>
                    flightData'.throttle = Min(100, flightData.throttle + 2))
    ]_vars

\* C11 witness: w was held for the first tick (one pitch step) and released
\* before the second, which ran with shift held: the thrust of that tick alone
\* has moved the aircraft, and the pitch has not moved again
ReleasedBeforeSecondTick ==
    /\ ticks = 2
    /\ "w" \in DOMAIN lastEvent /\ lastEvent["w"] = "keyup"
    /\ Held("shift")
    /\ flightData.throttle = 2
    /\ aircraftState.rotation.x = -pitchSpeed
    /\ aircraftState.position.z > 0
    /\ aircraftState.position.z < Thrust(2)

ThrottleUpFromRest ==
    [][ticks' # ticks =>
        /\ flightData'.throttle = Min(100, 2 * ticks')
        /\ (ticks' <= 50 => flightData'.throttle = flightData.throttle + 2)
        /\ flightData'.engineStatus = "RUNNING"
        /\ aircraftState'.position.z > aircraftState.position.z
    ]_vars

\* C13 witness: the fiftieth tick with the throttle-up key held since rest
FullThrottleAtTickFifty ==
    /\ ticks = 50
    /\ keysPressed = {"shift"}
    /\ flightData.throttle = 100
    /\ flightData.engineStatus = "RUNNING"
    /\ aircraftState.position.z > 0

\* C14: dropped from position.y = 5, every tick lowers position.y while it is
\* above 0; a simulation left playing reaches position.y = 0; every tick that
\* starts on the ground ends with position.y = 0 and velocity.y = 0.
DropsToGround ==
    /\ [][ticks' # ticks =>
            /\ (aircraftState.position.y > 0 =>
                    /\ aircraftState'.position.y < aircraftState.position.y
                    /\ aircraftState'.position.y >= 0)
            /\ (aircraftState.position.y = 0 =>
                    /\ aircraftState'.position.y = 0
                    /\ aircraftState'.velocity.y = 0)
       ]_vars
    /\ (<>[]isPlaying => <>(aircraftState.position.y = 0))

\* C14 witness: a tick that started on the ground after the drop
RestingAfterDrop ==
    /\ ticks > 0
    /\ prevY = 0
    /\ integratedY < 0
    /\ aircraftState.position.y = 0
    /\ aircraftState.velocity.y = 0

\* C15: in every reachable state the displayed altitude is
\* round(max(0, 10 * position.y)) and the displayed speed is
\* round(100 * |velocity|).
InstrumentsNeverStale ==
    /\ flightData.altitude = Altitude(aircraftState.position.y)
    /\ flightData.speed = Speed(aircraftState.velocity)

\* C16: a step that changes landingGear changes nothing else; a tick leaves
\* landingGear as it is, and everything else a tick writes is computed from
\* the keys, the aircraft state and the other flight data.
GearIsIndependent ==
    [][/\ (flightData'.landingGear # flightData.landingGear =>
              /\ flightData' = [flightData EXCEPT !.landingGear = ~flightData.landingGear]
              /\ UNCHANGED <<isPlaying, cameraMode, aircraftState, keysPressed,
                             interval, ticks>>)
       /\ (ticks' # ticks =>
              LET throttle == NewThrottle(flightData.throttle, keysPressed)
                  flaps    == NewFlaps(flightData.flaps, keysPressed)
                  rot      == NewRotation(aircraftState.rotation, keysPressed)
                  vel      == NewVelocity(aircraftState.velocity, rot, throttle, flaps)
                  moved    == VecAdd(aircraftState.position, vel)
                  fuel     == NewFuel(flightData.fuel, throttle)
              IN  /\ flightData'.landingGear = flightData.landingGear
                  /\ aircraftState' = [position |-> GroundPosition(moved),
                                       rotation |-> rot,
                                       velocity |-> GroundVelocity(moved, vel)]
                  /\ flightData'.throttle = throttle
                  /\ flightData'.flaps = flaps
                  /\ flightData'.fuel = StoredFuel(fuel)
                  /\ flightData'.engineTemp =
                         StoredEngineTemp(NewEngineTemp(flightData.engineTemp, throttle))
                  /\ flightData'.engineStatus = EngineStatus(fuel, throttle)
                  /\ flightData'.speed = Speed(aircraftState'.velocity)
                  /\ flightData'.altitude = Altitude(aircraftState'.position.y)
                  /\ flightData'.heading = Heading(rot.y)
                  /\ flightData'.verticalSpeed =
                         VerticalSpeed(aircraftState'.position.y, aircraftState.position.y)
                  /\ flightData'.gForce =
                         GForce(aircraftState'.position.y, aircraftState.position.y))
    ]_vars

\* C16 witness: the gear was raised and a tick with the throttle-up key held
\* has run
TickWithGearUp ==
    /\ ~flightData.landingGear
    /\ ticks > 0
    /\ flightData.throttle = 2
    /\ flightData.engineStatus = "RUNNING"

\* C17: the fuel a tick leaves for the next tick is max(0, F - (T / 100) * 0.02)
\* for the fuel F it started with and the tick's throttle T, unrounded, and it
\* is lower than F whenever T > 0 and F > 0.
FuelCarriedUnrounded ==
    [][ticks' # ticks =>
        /\ flightData'.fuel = NewFuel(flightData.fuel, flightData'.throttle)
        /\ (flightData'.throttle > 0 /\ flightData.fuel > 0 =>
                flightData'.fuel < flightData.fuel)
    ]_vars

\* C18: in a tick that keeps the throttle T, the gap between the engine
\* temperature and the target 75 + T / 2 never grows, and shrinks while it is
\* not zero.
EngineTempTarget(throttle) == 75 * Scale + RDiv(throttle * 50 * Scale, 100)
EngineTempGap(engineTemp, throttle) == Abs(EngineTempTarget(throttle) - engineTemp * Scale)
EngineTempGapShrinks ==
    [][ticks' # ticks /\ flightData'.throttle = flightData.throttle =>
        LET gap   == EngineTempGap(flightData.engineTemp, flightData.throttle)
            after == EngineTempGap(flightData'.engineTemp, flightData.throttle)
        IN  /\ after <= gap
            /\ (gap # 0 => after < gap)
    ]_vars

\* C19: a tick changes the yaw by -0.01 when a roll-left key is held plus +0.01
\* when a roll-right key is held (0 with both or neither), whether or not the
\* roll is at its clamp.
YawFollowsRollKeys ==
    [][ticks' # ticks =>
        LET rollLeft  == "a" \in keysPressed \/ "arrowleft" \in keysPressed
            rollRight == "d" \in keysPressed \/ "arrowright" \in keysPressed
        IN  aircraftState'.rotation.y - aircraftState.rotation.y =
                (IF rollRight THEN yawSpeed ELSE 0) - (IF rollLeft THEN yawSpeed ELSE 0)
    ]_vars

\* C19 witness: roll-left is still held with the roll at its clamp, and every
\* tick so far has turned the yaw
YawTurnsAtRollClamp ==
    /\ ticks > AttitudeHold
    /\ "a" \in keysPressed
    /\ aircraftState.rotation.z = SixthPI
    /\ aircraftState.rotation.y = -(ticks * yawSpeed)

====
